---- MODULE Spec2Model ----
(***************************************************************************)
(* Model of astro-content-loader (src/src/index.ts, src/src/utils.ts):     *)
(* the loader's load() function, the per-file pipeline syncData, the       *)
(* watcher handlers onChange / onUnlink, and the pure helpers inferBase,   *)
(* generateIdDefault and posixRelative.                                    *)
(*                                                                         *)
(* Paths are sequences of segments (POSIX, path.sep = "/"): the absolute   *)
(* path /r/c/a.astro is <<"r", "c", "a.astro">>, the root "/" is <<>>.     *)
(* A relative path is a sequence too and may start with ".." segments.     *)
(* An id is the sequence of its "/"-separated parts.                       *)
(***************************************************************************)
EXTENDS Naturals, Integers, Sequences, FiniteSets, TLC

\* ---------------------------------------------------------------- bounds
MaxFiles  == 2      \* most module paths handed to the loader
MaxNotifs == 1      \* most watcher notifications delivered
MaxEdits  == 1      \* most edits of file content
MaxRuns   == 2      \* most processes run against the same persisted store
MaxDepth  == 3      \* longest path given to inferBase on its own
MaxPaths  == 2      \* most paths given to inferBase on its own
MaxEntry  == 2      \* longest entry given to generateIdDefault on its own

\* JavaScript undefined, one value per type.  The empty string is the absent
\* id and the absent path: the code tests both for truthiness only.
None     == "none"
NoId     == <<>>
NoPath   == <<>>
NoBase   == [given |-> FALSE]
NoUrl    == [set |-> FALSE]
NoRecord == [absent |-> TRUE]
NoDigest == [absent |-> TRUE]
NoPrev   == [absent |-> TRUE]

\* ------------------------------------------------------------ environment
\* fileURLToPath(config.root)
Root == <<"r">>

\* The files a glob may match, in the order import.meta.glob lists them.
FileList ==
  << <<"r", "c", "My Post.astro">>,
     <<"r", "c", "a.astro">>,
     <<"r", "c", "p", "index.astro">> >>

FileUniverse == { FileList[i] : i \in DOMAIN FileList }

\* Paths a watcher notification may carry: the watcher reports every file of
\* the project, tracked or not.
WatchPaths == FileUniverse \cup { <<"r", "a.astro">> }

\* Explicit `base` options, relative to the project root; slash tells whether
\* the option was written with a trailing "/".
BaseOptions ==
  { [given |-> TRUE, segs |-> <<"c">>, slash |-> TRUE],
    [given |-> TRUE, segs |-> <<"c">>, slash |-> FALSE],
    [given |-> TRUE, segs |-> <<"d">>, slash |-> TRUE] }

\* The module a file exports: its declared metadata (slug is the only key the
\* loader reads; ok tells whether the metadata satisfies the collection schema).
\* "My Post.astro" declares metadata the schema rejects, and keeps doing so.
Slugs     == { "p" }
Instances == [slug : Slugs \cup {None}, ok : BOOLEAN]
FirstInstance(f) == [slug |-> None, ok |-> (f # <<"r", "c", "My Post.astro">>)]

\* ------------------------------------------------------- small utilities
Min(a, b) == IF a <= b THEN a ELSE b

Prefix(s, n) == SubSeq(s, 1, n)
DropLast(s)  == IF s = <<>> THEN s ELSE SubSeq(s, 1, Len(s) - 1)
Range(s)     == { s[i] : i \in DOMAIN s }

EmptyMap == <<>>
MapGet(m, k, absent) == IF k \in DOMAIN m THEN m[k] ELSE absent
MapSet(m, k, v) == [x \in DOMAIN m \cup {k} |-> IF x = k THEN v ELSE m[x]]
MapDelete(m, k) == [x \in DOMAIN m \ {k} |-> m[x]]

\* ------------------------------------------------------------ utils.ts
\* path.relative(from, to) for two absolute, normalised paths: one ".." for
\* every segment of `from` below the common prefix, then the rest of `to`.
CommonLen(a, b) ==
  CHOOSE k \in 0..Min(Len(a), Len(b)) :
    /\ Prefix(a, k) = Prefix(b, k)
    /\ \/ k = Min(Len(a), Len(b))
       \/ a[k + 1] # b[k + 1]

pathRelative(from, to) ==
  LET k == CommonLen(from, to)
  IN  [i \in 1..(Len(from) - k) |-> ".."] \o SubSeq(to, k + 1, Len(to))

\* posixifyPath splits on path.sep and joins with "/"; on POSIX the segments
\* are kept as they are.
posixifyPath(filePath) == [i \in DOMAIN filePath |-> filePath[i]]

posixRelative(from, to) == posixifyPath(pathRelative(from, to))

\* ------------------------------------------------------------ inferBase
\* p.split(path.sep) of an absolute path: a leading empty segment.
SplitPath(p) == <<"">> \o p

\* path.join(path.sep, ...parts): empty parts are dropped, result is absolute.
RECURSIVE JoinAbsolute(_)
JoinAbsolute(parts) ==
  IF parts = <<>> THEN <<>>
  ELSE IF Head(parts) = "" THEN JoinAbsolute(Tail(parts))
       ELSE <<Head(parts)>> \o JoinAbsolute(Tail(parts))

\* inferBase's loop without its `break`: a later index on which the paths
\* agree again is still accumulated.
RECURSIVE InferLoopNoBreak(_, _, _)
InferLoopNoBreak(splitPaths, i, baseParts) ==
  LET firstPath == splitPaths[1]
  IN  IF i > Len(firstPath) THEN baseParts
      ELSE IF \A j \in DOMAIN splitPaths :
                 /\ i <= Len(splitPaths[j])
                 /\ splitPaths[j][i] = firstPath[i]
           THEN InferLoopNoBreak(splitPaths, i + 1,
                                 Append(baseParts, firstPath[i]))
           ELSE InferLoopNoBreak(splitPaths, i + 1, baseParts)

\* The for loop of inferBase from index i with baseParts accumulated so far.
RECURSIVE InferLoop(_, _, _)
InferLoop(splitPaths, i, baseParts) ==
  LET firstPath == splitPaths[1]
  IN  IF i > Len(firstPath) THEN baseParts
      ELSE IF \A j \in DOMAIN splitPaths :
                 /\ i <= Len(splitPaths[j])
                 /\ splitPaths[j][i] = firstPath[i]
           THEN InferLoop(splitPaths, i + 1, Append(baseParts, firstPath[i]))
           ELSE baseParts

inferBase(paths) ==
  LET splitPaths == [j \in DOMAIN paths |-> SplitPath(paths[j])]
  IN  JoinAbsolute(InferLoop(splitPaths, 1, <<>>))

\* ---------------------------------------------------- generateIdDefault
\* path.extname of the entry's last segment and its removal by
\* entry.replace(new RegExp(ext + "$"), "").
StripExt(seg) ==
  CASE seg = "a.astro"       -> "a"
    [] seg = "My Post.astro" -> "My Post"
    [] seg = "index.astro"   -> "index"
    [] seg = "Index.astro"   -> "Index"
    [] seg = "other.txt"     -> "other"
    [] OTHER                 -> seg

\* github-slugger's slug(): lower case, punctuation removed, spaces to hyphens.
githubSlug(seg) ==
  CASE seg = "My Post" -> "my-post"
    [] seg = "Index"   -> "index"
    [] seg = ".."      -> ""
    [] OTHER           -> seg

\* index.ts 62: .replace(/\/index$/, "") on the joined id, which drops a last
\* part "index" only when a "/" precedes it.
DropTrailingIndexAnywhere(slug) ==
  IF Len(slug) >= 1 /\ slug[Len(slug)] = "index" THEN DropLast(slug) ELSE slug

DropTrailingIndex(slug) ==
  IF Len(slug) > 1 /\ slug[Len(slug)] = "index" THEN DropLast(slug) ELSE slug

\* index.ts 51: `meta && meta.slug`, true of every slug but the absent one and
\* the empty string.
Truthy(slug) == slug # None /\ slug # ""

generateIdIgnoringSlug(entry, meta) ==
  LET withoutFileExt ==
        IF entry = <<>> THEN entry
        ELSE Append(DropLast(entry), StripExt(entry[Len(entry)]))
      slug == [i \in DOMAIN withoutFileExt |-> githubSlug(withoutFileExt[i])]
  IN  DropTrailingIndex(slug)

generateIdDefault(entry, meta) ==
  IF Truthy(meta.slug)
  THEN <<meta.slug>>
  ELSE LET withoutFileExt ==
             IF entry = <<>> THEN entry
             ELSE Append(DropLast(entry), StripExt(entry[Len(entry)]))
           slug == [i \in DOMAIN withoutFileExt |-> githubSlug(withoutFileExt[i])]
       IN  DropTrailingIndex(slug)

\* ------------------------------------------------------------ URLs
\* new URL(encodeURI(entry), baseDir) followed by fileURLToPath: a relative
\* reference replaces the last segment of a base that has no trailing slash,
\* and ".." steps up (never above the root).
RECURSIVE ApplyRelative(_, _)
ApplyRelative(dir, rel) ==
  IF rel = <<>> THEN dir
  ELSE ApplyRelative(IF Head(rel) = ".." THEN DropLast(dir)
                     ELSE Append(dir, Head(rel)),
                     Tail(rel))

ResolveUrl(entry, url) ==
  ApplyRelative(IF url.slash THEN url.path ELSE DropLast(url.path), entry)

\* generateDigest(JSON.stringify(instance)): a fingerprint of the module.
generateDigest(instance) == [of |-> instance]

\* ------------------------------------------------------------- state
VARIABLES
  modules,          \* GlobOptions.modules: the module paths, in key order
  base,             \* GlobOptions.base: NoBase or an element of BaseOptions
  eager,            \* the glob was configured with eager: true
  hasWatcher,       \* LoaderContext.watcher is present
  baseExists,       \* existsSync(baseDir)
  disk,             \* what each file currently exports
  pc,               \* position of load(): init, awaitModules, returned, rejected
  modulesAbsolute,  \* absolute path -> loaded module
  baseDir,          \* the base directory URL [path, slash], NoUrl before it is set
  watcherAttached,  \* watcher.add and watcher.on have been called
  fileToIdMap,      \* absolute path -> id
  store,            \* LoaderContext.store: id -> record
  pipes,            \* the syncData calls in flight
  log,              \* number of logger.error / warn / info calls
  calls,            \* number of calls made to the collaborators in this run
  run,              \* number of the process (1, 2, ...) using the store
  hist              \* history: the last operation, what was synced, budgets

vars == <<modules, base, eager, hasWatcher, baseExists, disk, pc,
          modulesAbsolute, baseDir, watcherAttached, fileToIdMap, store,
          pipes, log, calls, run, hist>>

config == <<modules, base, eager, hasWatcher, baseExists>>

Tracked == Range(modules)

\* The glob results of at most n files: subsequences of FileList.
RECURSIVE Pick(_, _)
Pick(list, chosen) ==
  IF list = <<>> THEN <<>>
  ELSE (IF Len(list) \in chosen THEN <<list[Len(list)]>> ELSE <<>>)
       \o Pick(DropLast(list), chosen)

RECURSIVE Reverse(_)
Reverse(s) == IF s = <<>> THEN s ELSE Append(Reverse(Tail(s)), Head(s))

GlobResults(n) ==
  { Reverse(Pick(FileList, chosen)) :
      chosen \in { c \in SUBSET DOMAIN FileList : Cardinality(c) <= n } }

\* A file below the directory dir.
Below(dir, file) == Len(file) > Len(dir) /\ Prefix(file, Len(dir)) = dir

\* loader: lazy module loaders called; render, parse, set: renderToString,
\* parseData, store.set calls; done: syncData calls that returned; rejected:
\* syncData calls that threw; invalid: validations that failed.
ZeroCalls == [loader |-> 0, render |-> 0, parse |-> 0, set |-> 0,
              done |-> 0, rejected |-> 0, invalid |-> 0]
ZeroLog   == [error |-> 0, warn |-> 0, info |-> 0]

NoOp == [op |-> "none"]

\* History kept for stating properties; the program does not read it.
\*   last        the operation the last step performed
\*   synced      file -> id its latest completed pipeline synced it under
\*   notifs      notifications delivered so far
\*   edits       edits made so far
\*   quiet       no edit and no notification since this run's files were fixed
\*   startStore  the store as this run found it
\*   prev        NoPrev, or how the previous run ended
\*   removed     the tracked files reported unlinked and not added or changed since
InitHist ==
  [last |-> NoOp, synced |-> EmptyMap, notifs |-> 0, edits |-> 0,
   quiet |-> TRUE, startStore |-> EmptyMap, prev |-> NoPrev, removed |-> {}]

Init ==
  /\ modules \in GlobResults(MaxFiles)
  /\ base \in BaseOptions \cup {NoBase}
  /\ hasWatcher \in BOOLEAN
  \* README: eager is false in dev mode (with a watcher), true when building
  /\ eager = ~hasWatcher
  /\ baseExists \in BOOLEAN
  \* a directory that holds one of the files exists
  /\ ~base.given => baseExists
  /\ (base.given /\ \E i \in DOMAIN modules : Below(Root \o base.segs, modules[i]))
       => baseExists
  /\ disk = [f \in FileUniverse |-> FirstInstance(f)]
  /\ pc = "init"
  /\ modulesAbsolute = EmptyMap
  /\ baseDir = NoUrl
  /\ watcherAttached = FALSE
  /\ fileToIdMap = EmptyMap
  /\ store = EmptyMap
  /\ pipes = {}
  /\ log = ZeroLog
  /\ calls = ZeroCalls
  /\ run = 1
  /\ hist = InitHist

\* ----------------------------------------------------------------- load
\* The guard with `< 1` in place of `< 2`: a single path passes.
AmbiguousBaseOffByOne(paths, b) == Len(paths) < 1 /\ ~b.given

\* index.ts 117: too few paths to infer a base from and no explicit base.
AmbiguousBase(paths, b) == Len(paths) < 2 /\ ~b.given

\* index.ts 110-139, up to the await of the module loaders: the warning for
\* an empty glob, the configuration error, and the calls of the lazy loaders.
LoadBegin ==
  /\ pc = "init"
  /\ LET warned == IF Len(modules) = 0 THEN 1 ELSE 0
     IN  IF AmbiguousBase(modules, base)
         THEN /\ log' = [log EXCEPT !.warn = @ + warned, !.error = @ + 1]
              /\ pc' = "returned"
              /\ calls' = calls
         ELSE /\ log' = [log EXCEPT !.warn = @ + warned]
              /\ pc' = "awaitModules"
              /\ calls' = [calls EXCEPT
                             !.loader = IF eager THEN @ ELSE @ + Len(modules)]
  /\ hist' = [hist EXCEPT !.last = NoOp]
  /\ UNCHANGED <<config, disk, modulesAbsolute, baseDir, watcherAttached,
                 fileToIdMap, store, pipes, run>>

\* index.ts 125-138: a lazy loader rejects, so Promise.all and load() reject.
LoadReject ==
  /\ pc = "awaitModules"
  /\ ~eager
  /\ Len(modules) > 0
  /\ pc' = "rejected"
  /\ hist' = [hist EXCEPT !.last = NoOp]
  /\ UNCHANGED <<config, disk, modulesAbsolute, baseDir, watcherAttached,
                 fileToIdMap, store, pipes, log, calls, run>>

\* index.ts 142-144: the base directory URL.
ResolveBaseDir(paths, b) ==
  IF b.given
  THEN [path |-> Root \o b.segs, slash |-> b.slash]
  ELSE [path |-> inferBase(paths), slash |-> FALSE]

\* fileURLToPath(baseDir)
BaseDirPath(url) == url.path

\* index.ts 194-198: the part of syncData that runs inside its caller, up to
\* the first await: the id is generated, a differing old id is deleted.
StoreAfterSyncStart(st, id, oldId) ==
  IF oldId # NoId /\ oldId # id THEN MapDelete(st, oldId) ELSE st

\* The least number no syncData call in flight has.
FreeNumber == CHOOSE n \in 1..(Cardinality(pipes) + 1) :
                 /\ \A k \in pipes : k.n # n
                 /\ \A m \in 1..(n - 1) : \E k \in pipes : k.n = m

NewPipe(n, file, entry, id, oldId, origin) ==
  [n |-> n, file |-> file, entry |-> entry, id |-> id, oldId |-> oldId,
   origin |-> origin, was |-> MapGet(hist.synced, file, NoId),
   deleted |-> (oldId # NoId /\ oldId # id /\ oldId \in DOMAIN store)]

\* index.ts 156-159: one syncData call per module, none of them awaited.
BulkPipes(loaded, url) ==
  { NewPipe(Cardinality(pipes) + i, modules[i],
            posixRelative(BaseDirPath(url), modules[i]),
            generateIdDefault(posixRelative(BaseDirPath(url), modules[i]),
                              loaded[modules[i]]),
            NoId, "bulk") : i \in DOMAIN modules }

\* index.ts 140-185, from the resolution of the module loaders to the return.
LoadContinue ==
  /\ pc = "awaitModules"
  /\ LET loaded == [f \in Tracked |-> disk[f]]
         url    == ResolveBaseDir(modules, base)
         started == BulkPipes(loaded, url)
     IN  /\ modulesAbsolute' = loaded
         /\ baseDir' = url
         /\ log' = IF baseExists THEN log ELSE [log EXCEPT !.error = @ + 1]
         /\ pipes' = pipes \cup started
         /\ watcherAttached' = hasWatcher
         /\ hist' = [hist EXCEPT !.last = NoOp]
  /\ pc' = "returned"
  /\ UNCHANGED <<config, disk, fileToIdMap, store, calls, run>>

\* ------------------------------------------------------------- syncData
\* index.ts 200-201: the awaits of syncData.  The container is created and
\* the render requested without touching the store or the index, so both
\* awaits are one suspension here; this is the render that rejects, and the
\* syncData promise rejects with it and nobody handles it.
PipeRenderFail(k) ==
  /\ k \in pipes
  /\ pipes' = pipes \ {k}
  /\ calls' = [calls EXCEPT !.render = @ + 1, !.rejected = @ + 1]
  /\ hist' = [hist EXCEPT !.last = [op |-> "syncFailed", file |-> k.file,
                                    id |-> k.id, origin |-> k.origin,
                                    deleted |-> k.deleted]]
  /\ UNCHANGED <<config, disk, pc, modulesAbsolute, baseDir, watcherAttached,
                 fileToIdMap, store, log, run>>

\* index.ts 207-211: the record in the store makes the work unnecessary.
UnchangedIgnoringDigest(existingEntry, digest) ==
  /\ existingEntry # NoRecord
  /\ existingEntry.filePath # NoPath

Unchanged(existingEntry, digest) ==
  /\ existingEntry # NoRecord
  /\ existingEntry.digest = digest
  /\ existingEntry.filePath # NoPath

\* index.ts 223-227: what parseData resolves to when the data satisfies the
\* schema: the schema's output for the data, a value of its own.
parseData(data) == [parsed |-> data]

\* index.ts 229-236: the record handed to store.set (no digest is passed).
StoreRecord(data, html, relativeToRoot) ==
  [data |-> data, html |-> html, filePath |-> relativeToRoot,
   digest |-> NoDigest]

\* index.ts 200-238: the render succeeds, and syncData runs to its end.  A failed
\* validation either throws inside parseData (sync = TRUE) or rejects the
\* promise parseData returned, which syncData does not await.
PipeFinish(k, sync) ==
  /\ k \in pipes
  /\ LET instance      == modulesAbsolute[k.file]
         existingEntry == MapGet(store, k.id, NoRecord)
         digest        == generateDigest(instance)
         filePath      == ResolveUrl(k.entry, baseDir)
         relativeToRoot == posixRelative(Root, filePath)
         data          == [slug |-> instance.slug]
         alone         == ~\E o \in pipes \ {k} : o.file = k.file
         done(what)    == [op |-> "syncDone", file |-> k.file, id |-> k.id,
                           was |-> k.was, origin |-> k.origin,
                           alone |-> alone, what |-> what,
                           deleted |-> k.deleted]
     IN  IF Unchanged(existingEntry, digest)
         THEN /\ sync
              /\ fileToIdMap' = MapSet(fileToIdMap, filePath, k.id)
              /\ store' = store
              /\ calls' = [calls EXCEPT !.render = @ + 1, !.done = @ + 1]
              /\ hist' = [hist EXCEPT !.last = done("skip"),
                                      !.synced = MapSet(@, k.file, k.id)]
         ELSE IF ~instance.ok /\ sync
         THEN /\ fileToIdMap' = fileToIdMap
              /\ store' = store
              /\ calls' = [calls EXCEPT !.render = @ + 1, !.parse = @ + 1,
                                         !.rejected = @ + 1,
                                         !.invalid = @ + 1]
              /\ hist' = [hist EXCEPT !.last = done("threw")]
         ELSE /\ instance.ok => sync
              /\ store' = MapSet(store, k.id,
                                 StoreRecord(data, [of |-> k.file],
                                             relativeToRoot))
              /\ fileToIdMap' = MapSet(fileToIdMap, filePath, k.id)
              /\ calls' = [calls EXCEPT
                             !.render = @ + 1, !.parse = @ + 1,
                             !.set = @ + 1, !.done = @ + 1,
                             !.invalid = IF instance.ok THEN @ ELSE @ + 1]
              /\ hist' = [hist EXCEPT !.last = done("set"),
                                      !.synced = MapSet(@, k.file, k.id)]
  /\ pipes' = pipes \ {k}
  /\ UNCHANGED <<config, disk, pc, modulesAbsolute, baseDir, watcherAttached,
                 log, run>>

\* -------------------------------------------------------------- watcher
\* index.ts 164-175, registered for "add" and "change".
onChange(changedPath) ==
  /\ watcherAttached
  /\ hist.notifs < MaxNotifs
  /\ LET before == [op |-> "onChange", path |-> changedPath, store |-> store,
                    index |-> fileToIdMap,
                    synced |-> MapGet(hist.synced, changedPath, NoId)]
     IN  IF changedPath \in DOMAIN modulesAbsolute
         THEN LET entry == posixRelative(BaseDirPath(baseDir), changedPath)
                  oldId == MapGet(fileToIdMap, changedPath, NoId)
                  id    == generateIdDefault(entry, modulesAbsolute[changedPath])
              IN  /\ store' = StoreAfterSyncStart(store, id, oldId)
                  /\ pipes' = pipes \cup
                       {NewPipe(FreeNumber, changedPath, entry, id, oldId,
                                "change")}
                  /\ log' = [log EXCEPT !.info = @ + 1]
                  /\ hist' = [hist EXCEPT !.last = before, !.notifs = @ + 1,
                                          !.quiet = FALSE,
                                          !.removed = @ \ {changedPath}]
         ELSE /\ hist' = [hist EXCEPT !.last = before, !.notifs = @ + 1,
                                      !.quiet = FALSE]
              /\ UNCHANGED <<store, pipes, log>>
  /\ UNCHANGED <<config, disk, pc, modulesAbsolute, baseDir, watcherAttached,
                 fileToIdMap, calls, run>>

\* index.ts 176-182, registered for "unlink".
onUnlink(unlinkedPath) ==
  /\ watcherAttached
  /\ hist.notifs < MaxNotifs
  /\ LET id == MapGet(fileToIdMap, unlinkedPath, NoId)
     IN  IF id # NoId
         THEN /\ store' = MapDelete(store, id)
              /\ fileToIdMap' = MapDelete(fileToIdMap, unlinkedPath)
         ELSE UNCHANGED <<store, fileToIdMap>>
  /\ hist' = [hist EXCEPT
                !.last = [op |-> "onUnlink", path |-> unlinkedPath,
                          store |-> store, index |-> fileToIdMap,
                          synced |-> MapGet(hist.synced, unlinkedPath, NoId)],
                !.synced = MapDelete(@, unlinkedPath),
                !.notifs = @ + 1, !.quiet = FALSE,
                !.removed = IF unlinkedPath \in DOMAIN modulesAbsolute
                            THEN @ \cup {unlinkedPath} ELSE @]
  /\ UNCHANGED <<config, disk, pc, modulesAbsolute, baseDir, watcherAttached,
                 pipes, log, calls, run>>

\* index.ts 183-185: the handler registered for each kind of notification.
NotificationKinds == {"add", "change", "unlink"}

Notify(kind, path) ==
  IF kind = "unlink" THEN onUnlink(path) ELSE onChange(path)

\* ---------------------------------------------------------- environment
\* A tracked file is edited.  The module object held in modulesAbsolute is
\* owned by the module source: it may or may not reflect the edit (live).
Edit(f, inst, live) ==
  /\ hist.edits < MaxEdits
  /\ f \in Tracked
  /\ inst # disk[f]
  /\ inst.ok = disk[f].ok
  /\ disk' = [disk EXCEPT ![f] = inst]
  /\ IF f \in DOMAIN modulesAbsolute
     THEN modulesAbsolute' =
            IF live THEN [modulesAbsolute EXCEPT ![f] = inst]
            ELSE modulesAbsolute
     ELSE live /\ modulesAbsolute' = modulesAbsolute
  /\ hist' = [hist EXCEPT !.last = NoOp,
                          !.edits = @ + 1,
                          !.quiet = (run = 1 /\ pc = "init")]
  /\ UNCHANGED <<config, pc, baseDir, watcherAttached, fileToIdMap, store,
                 pipes, log, calls, run>>

\* The process ends once nothing is in flight, and a new one is started with
\* the same options against the store the old one left: index.ts 97 makes a
\* new fileToIdMap, the store persists.  Only a process that saw no edit, no
\* notification and no failure is followed up; what happens to the files
\* between two runs happens before the next load() begins.
Restart ==
  /\ pc \in {"returned", "rejected"}
  /\ pipes = {}
  /\ run < MaxRuns
  /\ hist.quiet
  /\ calls.rejected = 0
  /\ run' = run + 1
  /\ pc' = "init"
  /\ modulesAbsolute' = EmptyMap
  /\ baseDir' = NoUrl
  /\ watcherAttached' = FALSE
  /\ fileToIdMap' = EmptyMap
  /\ log' = ZeroLog
  /\ calls' = ZeroCalls
  /\ hist' = [hist EXCEPT
                !.last = NoOp,
                !.synced = EmptyMap,
                !.quiet = TRUE,
                !.startStore = store,
                !.prev = [index |-> fileToIdMap, quiet |-> hist.quiet,
                          clean |-> (calls.rejected = 0 /\ calls.invalid = 0
                                     /\ pc = "returned")]]
  /\ UNCHANGED <<config, disk, store, pipes>>

Next ==
  \/ LoadBegin
  \/ LoadReject
  \/ LoadContinue
  \/ \E k \in pipes : PipeRenderFail(k)
  \/ \E k \in pipes, sync \in BOOLEAN : PipeFinish(k, sync)
  \/ \E kind \in NotificationKinds, path \in WatchPaths : Notify(kind, path)
  \/ \E f \in FileUniverse, inst \in Instances, live \in BOOLEAN :
       Edit(f, inst, live)
  \/ Restart

Spec == Init /\ [][Next]_vars

\* The bulk pass alone, run after run: no file is edited and no notification
\* is delivered.
NextBulk ==
  \/ LoadBegin
  \/ LoadReject
  \/ LoadContinue
  \/ \E k \in pipes : PipeRenderFail(k)
  \/ \E k \in pipes, sync \in BOOLEAN : PipeFinish(k, sync)
  \/ Restart

SpecBulk == Init /\ [][NextBulk]_vars

\* One process with its watcher: the bulk pass and the notifications, with no
\* edit of a file and no later run.
NextWatch ==
  \/ LoadBegin
  \/ LoadReject
  \/ LoadContinue
  \/ \E k \in pipes : PipeRenderFail(k)
  \/ \E k \in pipes, sync \in BOOLEAN : PipeFinish(k, sync)
  \/ \E kind \in NotificationKinds, path \in WatchPaths : Notify(kind, path)

SpecWatch == Init /\ [][NextWatch]_vars

\* ------------------------------------------------- inferBase on its own
\* The paths inferBase is tried on: absolute paths of at most MaxDepth
\* segments over two names, at least two and at most MaxPaths of them, in
\* any order.
RECURSIVE PathsUpTo(_)
PathsUpTo(n) ==
  IF n = 0 THEN { <<>> }
  ELSE LET shorter == PathsUpTo(n - 1)
       IN  shorter \cup { Append(q, x) : q \in shorter, x \in {"a", "b"} }

RECURSIVE PathLists(_)
PathLists(n) ==
  IF n = 0 THEN { <<>> }
  ELSE LET shorter == PathLists(n - 1)
       IN  shorter \cup
           { Append(l, q) : l \in shorter, q \in PathsUpTo(MaxDepth) \ {<<>>} }

InferInputs ==
  { l \in PathLists(MaxPaths) :
      /\ Len(l) >= 2
      /\ \A i, j \in DOMAIN l : i # j => l[i] # l[j] }

InitInfer ==
  /\ modules \in InferInputs
  /\ base = NoBase
  /\ eager = TRUE
  /\ hasWatcher = FALSE
  /\ baseExists = TRUE
  /\ disk = [f \in FileUniverse |-> FirstInstance(f)]
  /\ pc = "init"
  /\ modulesAbsolute = EmptyMap
  /\ baseDir = NoUrl
  /\ watcherAttached = FALSE
  /\ fileToIdMap = EmptyMap
  /\ store = EmptyMap
  /\ pipes = {}
  /\ log = ZeroLog
  /\ calls = ZeroCalls
  /\ run = 1
  /\ hist = InitHist

\* index.ts 144: the base is inferred from the paths.
InferStep ==
  /\ pc = "init"
  /\ pc' = "inferred"
  /\ baseDir' = ResolveBaseDir(modules, base)
  /\ UNCHANGED <<config, disk, modulesAbsolute, watcherAttached, fileToIdMap,
                 store, pipes, log, calls, run, hist>>

NextInfer == InferStep

SpecInfer == InitInfer /\ [][NextInfer]_vars

\* ------------------------------------------- generateIdDefault on its own
\* Segments of the entries and the slugs of the metadata the id generator is
\* applied to: directories, files with and without an extension, an index
\* file in two spellings, a slug that itself ends in "/index", the empty slug.
EntrySegments == { "posts", "index", "index.astro", "Index.astro", "My Post.astro" }

RECURSIVE EntriesUpTo(_)
EntriesUpTo(n) ==
  IF n = 0 THEN { <<>> }
  ELSE LET shorter == EntriesUpTo(n - 1)
       IN  shorter \cup { Append(q, x) : q \in shorter, x \in EntrySegments }

EntryInputs == EntriesUpTo(MaxEntry) \ { <<>> }

SlugInputs == { None, "", "p", "My Slug/index" }

\* The base directory /r/c/ every entry of EntryInputs is relative to.
IdBase == [path |-> Root \o <<"c">>, slash |-> TRUE]

InitId ==
  /\ \E entry \in EntryInputs, slug \in SlugInputs :
       /\ modules = << IdBase.path \o entry >>
       /\ disk = [f \in { IdBase.path \o entry } |-> [slug |-> slug, ok |-> TRUE]]
  /\ base = [given |-> TRUE, segs |-> <<"c">>, slash |-> TRUE]
  /\ eager = TRUE
  /\ hasWatcher = FALSE
  /\ baseExists = TRUE
  /\ pc = "init"
  /\ modulesAbsolute = EmptyMap
  /\ baseDir = IdBase
  /\ watcherAttached = FALSE
  /\ fileToIdMap = EmptyMap
  /\ store = EmptyMap
  /\ pipes = {}
  /\ log = ZeroLog
  /\ calls = ZeroCalls
  /\ run = 1
  /\ hist = InitHist

\* index.ts 157, 194: the entry is taken relative to the base and handed to
\* the id generator together with the module's metadata.
IdStep ==
  /\ pc = "init"
  /\ pc' = "identified"
  /\ fileToIdMap' =
       [f \in DOMAIN disk |->
          generateIdDefault(posixRelative(BaseDirPath(baseDir), f), disk[f])]
  /\ UNCHANGED <<config, disk, modulesAbsolute, baseDir, watcherAttached,
                 store, pipes, log, calls, run, hist>>

NextId == IdStep

SpecId == InitId /\ [][NextId]_vars

\* ------------------------------------------------------------ properties
Quiescent == pc = "returned" /\ pipes = {}

\* The id the code derives from the file's module as it is now.
CurrentId(file) ==
  generateIdDefault(posixRelative(BaseDirPath(baseDir), file),
                    modulesAbsolute[file])

EscapesUpward(entry) == entry # <<>> /\ entry[1] = ".."

\* C1: the engine is never ready (watcher attached, or load() returned) while
\* a syncData call of the bulk pass is still in flight.
BulkBarrier ==
  (watcherAttached \/ pc = "returned") =>
    \A k \in pipes : k.origin # "bulk"

\* C2: when the pipeline onChange(P) started has written the store and no
\* other pipeline for P is in flight, P having been synced under A and its
\* valid content now giving B # A (no other file using A or B), the store
\* has no record under A, has one under B, and the index maps P to B.
RenameProperty ==
  LET l == hist.last
  IN  ( /\ l.op = "syncDone"
        /\ l.origin = "change"
        /\ l.what = "set"
        /\ l.alone
        /\ l.was # NoId
        /\ l.id # l.was
        /\ l.id = CurrentId(l.file)
        /\ modulesAbsolute[l.file].ok
        /\ \A g \in Tracked \ {l.file} :
             /\ CurrentId(g) \notin {l.was, l.id}
             /\ MapGet(hist.synced, g, NoId) \notin {l.was, l.id} )
      => /\ l.was \notin DOMAIN store
         /\ l.id \in DOMAIN store
         /\ MapGet(fileToIdMap, l.file, NoId) = l.id

\* C3: onUnlink(P) for a path not synced changes neither the store nor the
\* index; onUnlink(P) for a tracked path synced under I leaves no record I
\* and no index entry for P.
UnlinkProperty ==
  LET l == hist.last
  IN  l.op = "onUnlink" =>
        /\ l.synced = NoId => (store = l.store /\ fileToIdMap = l.index)
        /\ (l.path \in Tracked /\ l.synced # NoId) =>
             /\ l.synced \notin DOMAIN store
             /\ l.path \notin DOMAIN fileToIdMap

\* C4: a second run over unchanged files, against the store a first run
\* without failures left, renders nothing, validates nothing, sets nothing,
\* and ends with the index of the first run.
BulkSyncIdempotent ==
  (run >= 2 /\ hist.quiet /\ hist.prev.clean /\ hist.prev.quiet) =>
    /\ calls.render = 0
    /\ calls.parse = 0
    /\ calls.set = 0
    /\ Quiescent => fileToIdMap = hist.prev.index

\* C5: a bulk pass over N files with distinct ids and an empty store, in
\* which every render succeeds and exactly one file fails validation, ends
\* with N - 1 records, none for the failing file, N - 1 completed pipelines
\* and exactly one reported error.
InvalidFiles == { f \in Tracked : ~disk[f].ok }

PartialFailure ==
  ( /\ run = 1
    /\ Quiescent
    /\ hist.quiet
    /\ baseExists
    /\ Cardinality(InvalidFiles) = 1
    /\ calls.parse = Len(modules)
    /\ \A f, g \in Tracked : f # g => CurrentId(f) # CurrentId(g) )
  => /\ Cardinality(DOMAIN store) = Len(modules) - 1
     /\ \A f \in InvalidFiles : CurrentId(f) \notin DOMAIN store
     /\ calls.done = Len(modules) - 1
     /\ log.error = 1

\* C6: when load() has found the base directory missing, it has reported
\* the error and there is no pipeline, no render, no write to the store or
\* the index, and no watcher.
MissingBaseAborts ==
  (~baseExists /\ pc = "returned") =>
    /\ log.error >= 1
    /\ pipes = {}
    /\ calls.render = 0
    /\ store = hist.startStore
    /\ fileToIdMap = EmptyMap
    /\ ~watcherAttached

\* C7: no entry path handed to syncData starts with a ".." segment.
NoEscapingEntry == \A k \in pipes : ~EscapesUpward(k.entry)

\* C8: with fewer than two module paths and no explicit base, load() has,
\* once it ran, reported an error and returned: no module loaded, no
\* pipeline, no store or index change, no watcher.
AmbiguousBaseReturns ==
  (Len(modules) < 2 /\ ~base.given /\ pc # "init") =>
    /\ pc = "returned"
    /\ log.error = 1
    /\ calls = ZeroCalls
    /\ modulesAbsolute = EmptyMap
    /\ pipes = {}
    /\ store = hist.startStore
    /\ fileToIdMap = EmptyMap
    /\ ~watcherAttached

\* C8 witness: load() ran on a single lazily loaded module with no base.
AmbiguousBaseSeen ==
  /\ Len(modules) = 1
  /\ ~base.given
  /\ ~eager
  /\ pc = "returned"
  /\ log.error = 1

\* C9: a notification for a path that is not a module path leaves the store
\* and the index as they were.
WatchFiltering ==
  LET l == hist.last
  IN  (l.op \in {"onChange", "onUnlink"} /\ l.path \notin Tracked) =>
        (store = l.store /\ fileToIdMap = l.index)

\* C10: inferBase returns the longest segment prefix all paths agree on; for
\* paths none of which lies above another it is a directory above them all.
IsCommonPrefix(d, paths) ==
  \A j \in DOMAIN paths :
    Len(d) <= Len(paths[j]) /\ Prefix(paths[j], Len(d)) = d

InferBaseIsDeepestCommonAncestor ==
  pc = "inferred" =>
    LET d == baseDir.path
    IN  /\ IsCommonPrefix(d, modules)
        /\ \A n \in (Len(d) + 1)..Len(modules[1]) :
             ~IsCommonPrefix(Prefix(modules[1], n), modules)
        /\ (\A i, j \in DOMAIN modules :
              i # j => ~IsCommonPrefix(modules[i], <<modules[j]>>))
           => \A j \in DOMAIN modules : Below(d, modules[j])

\* C10 witness: paths that part, agree again further down, and share a
\* directory below the root.
InferBaseSeen ==
  /\ pc = "inferred"
  /\ Len(baseDir.path) >= 1
  /\ \E i, j \in DOMAIN modules, n \in 1..MaxDepth :
       /\ n > Len(baseDir.path) + 1
       /\ n <= Len(modules[i]) /\ n <= Len(modules[j])
       /\ modules[i][n] = modules[j][n]
       /\ modules[i][Len(baseDir.path) + 1] # modules[j][Len(baseDir.path) + 1]

\* The entry and the metadata of the one file the id generator was applied to.
IdEntry(f) == posixRelative(BaseDirPath(baseDir), f)

\* C11 as stated: for every entry and every metadata that carries a slug s,
\* the default id generator returns exactly s.
SlugOverride ==
  pc = "identified" =>
    \A f \in DOMAIN disk :
      disk[f].slug # None => fileToIdMap[f] = << disk[f].slug >>

\* C11 amended: for every entry and every metadata that carries a non-empty
\* slug s, the default id generator returns exactly s: no extension is
\* stripped, nothing is slugified, no trailing index is dropped.
SlugOverrideNonEmpty ==
  pc = "identified" =>
    \A f \in DOMAIN disk :
      (disk[f].slug # None /\ disk[f].slug # "") =>
        fileToIdMap[f] = << disk[f].slug >>

\* C11 witness: an index file whose metadata carries a slug that needs
\* slugifying and ends in "/index" got that slug as its id, untouched.
SlugOverrideSeen ==
  /\ pc = "identified"
  /\ \E f \in DOMAIN disk :
       /\ IdEntry(f) = <<"posts", "index.astro">>
       /\ disk[f].slug = "My Slug/index"
       /\ fileToIdMap[f] = << "My Slug/index" >>

\* C18: for every entry without a slug the id is the entry's segments, each
\* slugified on its own with the extension removed from the last, and a last
\* part "index" is dropped when a directory precedes it: posts/index.astro
\* gets the id posts, while an entry whose only segment is index keeps index.
IndexFileMapping ==
  pc = "identified" =>
    \A f \in DOMAIN disk :
      disk[f].slug = None =>
        LET entry == IdEntry(f)
            n     == Len(entry)
            part(i) == githubSlug(IF i = n THEN StripExt(entry[i]) ELSE entry[i])
            id    == fileToIdMap[f]
        IN  /\ (n >= 2 /\ part(n) = "index") =>
                 /\ Len(id) = n - 1
                 /\ \A i \in 1..(n - 1) : id[i] = part(i)
            /\ ~(n >= 2 /\ part(n) = "index") =>
                 /\ Len(id) = n
                 /\ \A i \in 1..n : id[i] = part(i)
            /\ entry = <<"posts", "index.astro">> => id = <<"posts">>
            /\ entry = <<"index.astro">> => id = <<"index">>
            /\ entry = <<"posts", "My Post.astro">> => id = <<"posts", "my-post">>

\* C18 witness: an index file in a directory without a slug got the
\* directory's id.
IndexFileMappingSeen ==
  /\ pc = "identified"
  /\ \E f \in DOMAIN disk :
       /\ disk[f].slug = None
       /\ IdEntry(f) = <<"posts", "index.astro">>
       /\ fileToIdMap[f] = <<"posts">>

\* The file a store record was rendered from.
RecordsOf(file) == { id \in DOMAIN store : store[id].html.of = file }

\* C12: a file reported unlinked while a syncData call for it was in flight or
\* done, with no add or change for it afterwards, has no record in the store
\* and no entry in the index once every call has finished.  Stated for a base
\* written with its trailing separator, where the index is keyed by the
\* file's own path.
UnlinkWins ==
  (Quiescent /\ baseDir # NoUrl /\ baseDir.slash) =>
    \A file \in hist.removed :
      /\ file \notin DOMAIN fileToIdMap
      /\ RecordsOf(file) = {}

\* C13: every key of the index is the absolute path of a tracked file, and
\* the entry a finished syncData call made is under the file's own path.
IndexKeysAreFilePaths ==
  /\ DOMAIN fileToIdMap \subseteq Tracked
  /\ LET l == hist.last
     IN  (l.op = "syncDone" /\ l.what \in {"set", "skip"}) =>
           MapGet(fileToIdMap, l.file, NoId) = l.id

\* C15: a syncData call that fails, in the render or in the validation,
\* has written no record and deleted none.
FailedPipelineChangesNothing ==
  LET l == hist.last
  IN  /\ l.op = "syncFailed" => ~l.deleted
      /\ (l.op = "syncDone" /\ l.what = "threw") => ~l.deleted
      /\ (l.op = "syncDone" /\ ~modulesAbsolute[l.file].ok) => l.what # "set"

\* C16: the record a syncData call wrote carries the digest of the module, so
\* that the digest read back equals the one recomputed from the same module.
RecordCarriesDigest ==
  LET l == hist.last
  IN  (l.op = "syncDone" /\ l.what = "set") =>
        MapGet(store, l.id, NoRecord).digest =
          generateDigest(modulesAbsolute[l.file])

\* C17: a record is written only after the validation succeeded, and its data
\* is the value the validator returned.
StoredDataIsValidated ==
  LET l == hist.last
  IN  (l.op = "syncDone" /\ l.what = "set") =>
        /\ modulesAbsolute[l.file].ok
        /\ MapGet(store, l.id, NoRecord).data =
             parseData([slug |-> modulesAbsolute[l.file].slug])

\* The ids the tracked files have now are pairwise different.
DistinctIds ==
  \A f, g \in DOMAIN modulesAbsolute : f # g => CurrentId(f) # CurrentId(g)

\* C19: once load has returned and no syncData call is in flight, every id in
\* the range of the index has a record in the store.  Stated for files whose
\* ids differ, where no record is shared.
IndexIdsHaveRecords ==
  (Quiescent /\ DistinctIds) =>
    \A key \in DOMAIN fileToIdMap : fileToIdMap[key] \in DOMAIN store

\* C20: once the bulk pass over a persisted store has finished, every record
\* in the store has an id the index assigns.  Stated for a process that got
\* no notification and in which no syncData call failed.
NoStaleRecords ==
  (Quiescent /\ hist.notifs = 0 /\ calls.rejected = 0 /\ calls.invalid = 0) =>
    \A id \in DOMAIN store :
      \E key \in DOMAIN fileToIdMap : fileToIdMap[key] = id

====
